---- MODULE Spec2Model ----
(***************************************************************************)
(* Model of work_time's src/module/main.py: the JSON document kept in      *)
(* DATA_FILE, load_data's normalisation of it, and the request handlers    *)
(* that load, mutate and save it.                                          *)
(*                                                                         *)
(* Strings are sequences of tokens: WS is one whitespace character, every  *)
(* other token is a run of non-blank characters.  JSON values of varying   *)
(* type are records that carry their type (isStr, isList, isDict, kind).   *)
(* A dict that keeps insertion order (projects) is a sequence of entries   *)
(* with distinct names.  Durations are integers in thousandths of an hour. *)
(*                                                                         *)
(* file is the content of DATA_FILE, resp the response of the handler that *)
(* ran last until it is sent, workers the requests that threads of the     *)
(* server handle at the same time.                                         *)
(***************************************************************************)
EXTENDS Integers, Sequences, FiniteSets, TLC

VARIABLES file, resp, workers

vars == <<file, resp, workers>>

\* ------------------------------------------------------------------------
\* Bounds of the exploration
\* ------------------------------------------------------------------------
MaxLogs == 2

\* ------------------------------------------------------------------------
\* Strings
\* ------------------------------------------------------------------------
WS == " "

DEFAULT_GROUP == <<"Ungrouped">>

RECURSIVE lstrip(_)
lstrip(s) == IF s # <<>> /\ Head(s) = WS THEN lstrip(Tail(s)) ELSE s

RECURSIVE rstrip(_)
rstrip(s) == IF s # <<>> /\ s[Len(s)] = WS THEN rstrip(SubSeq(s, 1, Len(s) - 1)) ELSE s

strip(s) == rstrip(lstrip(s))

\* tags_str.split(","): the pieces between the commas, cur being the piece
\* that is being read
RECURSIVE split(_, _)
split(s, cur) ==
    IF s = <<>> THEN <<cur>>
    ELSE IF Head(s) = "," THEN <<cur>> \o split(Tail(s), <<>>)
    ELSE split(Tail(s), Append(cur, Head(s)))

RECURSIVE StripNonBlank(_)
StripNonBlank(pieces) ==
    IF pieces = <<>> THEN <<>>
    ELSE IF strip(Head(pieces)) # <<>>
         THEN <<strip(Head(pieces))>> \o StripNonBlank(Tail(pieces))
         ELSE StripNonBlank(Tail(pieces))

\* [t.strip() for t in tags_str.split(",") if t.strip()]
parse_tags(tags_str) == StripNonBlank(split(tags_str, <<>>))

\* (request.form.get("group") or DEFAULT_GROUP).strip() or DEFAULT_GROUP
form_group(g) ==
    LET g1 == IF g = <<>> THEN DEFAULT_GROUP ELSE g
    IN  IF strip(g1) = <<>> THEN DEFAULT_GROUP ELSE strip(g1)

\* ------------------------------------------------------------------------
\* JSON values
\* ------------------------------------------------------------------------
Str(s) == [isStr |-> TRUE, s |-> s]

NonStr == [isStr |-> FALSE, s |-> <<>>]

List(items) == [isList |-> TRUE, items |-> items]

NonList == [isList |-> FALSE, items |-> <<>>]

NoSession == [present |-> FALSE, start_time |-> 0, date |-> ""]

Session(t, d) == [present |-> TRUE, start_time |-> t, date |-> d]

\* the date key is absent from a stored session
NoDate == ""

Project(name, tags, logs, group, session) ==
    [name |-> name, isDict |-> TRUE, tags |-> tags, time_logs |-> logs,
     group |-> group, current_session |-> session]

GroupStr(s) == [kind |-> "str", s |-> s]

GroupMissing == [kind |-> "missing", s |-> <<>>]

GroupNonStr == [kind |-> "nonstr", s |-> <<>>]

\* a project value that is not an object (a number, a string, null, a list)
NonDictProject(name) ==
    [name |-> name, isDict |-> FALSE, tags |-> NonList, time_logs |-> NonList,
     group |-> GroupMissing, current_session |-> NoSession]

Dict(entries) == [isDict |-> TRUE, items |-> entries]

NonDict == [isDict |-> FALSE, items |-> <<>>]

Doc(groups, projects) == [groups |-> groups, projects |-> projects]

\* {"projects": {}, "groups": [DEFAULT_GROUP]}
EmptyDoc == Doc(List(<<Str(DEFAULT_GROUP)>>), Dict(<<>>))

FileOf(doc) == [kind |-> "dict", doc |-> doc]

\* the file is absent, is not JSON ("unparsable"), holds a JSON value that is
\* no object ("notdict"), or holds bytes that are not UTF-8 ("undecodable")
NoFile(kind) == [kind |-> kind, doc |-> EmptyDoc]

\* ------------------------------------------------------------------------
\* Sequences
\* ------------------------------------------------------------------------
Range(seq) == {seq[i] : i \in 1..Len(seq)}

RECURSIVE Filter(_, _)
Filter(seq, keep) ==
    IF seq = <<>> THEN <<>>
    ELSE IF Head(seq) \in keep THEN <<Head(seq)>> \o Filter(Tail(seq), keep)
    ELSE Filter(Tail(seq), keep)

\* ------------------------------------------------------------------------
\* load_data
\* ------------------------------------------------------------------------
\* the loop over data["groups"]: acc is normalized_groups, whose members are
\* the set seen
RECURSIVE normalize_groups(_, _)
normalize_groups(items, acc) ==
    IF items = <<>> THEN acc
    ELSE LET g == Head(items)
             s == strip(g.s)
         IN  IF g.isStr /\ s # <<>> /\ Str(s) \notin Range(acc)
             THEN normalize_groups(Tail(items), Append(acc, Str(s)))
             ELSE normalize_groups(Tail(items), acc)

insert_default(groups) ==
    IF Str(DEFAULT_GROUP) \notin Range(groups)
    THEN <<Str(DEFAULT_GROUP)>> \o groups
    ELSE groups

\* one project of the loop over data["projects"]
normalize_project(p) ==
    IF ~p.isDict
    THEN Project(p.name, List(<<>>), List(<<>>), GroupStr(DEFAULT_GROUP), NoSession)
    ELSE LET tags == IF p.tags.isList THEN p.tags ELSE List(<<>>)
             logs == IF p.time_logs.isList THEN p.time_logs ELSE List(<<>>)
             grp  == IF p.group.kind # "str" \/ strip(p.group.s) = <<>>
                     THEN DEFAULT_GROUP
                     ELSE strip(p.group.s)
         IN  Project(p.name, tags, logs, GroupStr(grp), p.current_session)

\* a bug: a project's group is appended without looking it up in seen
RECURSIVE normalize_projects_unseen(_, _, _)
normalize_projects_unseen(todo, done, groups) ==
    IF todo = <<>> THEN Doc(List(groups), Dict(done))
    ELSE LET p == normalize_project(Head(todo))
         IN  normalize_projects_unseen(Tail(todo), Append(done, p),
                 IF Head(todo).isDict THEN Append(groups, Str(p.group.s)) ELSE groups)

\* the loop over data["projects"]: done are the projects already normalised,
\* groups is data["groups"] (its members are the set seen)
RECURSIVE normalize_projects(_, _, _)
normalize_projects(todo, done, groups) ==
    IF todo = <<>> THEN Doc(List(groups), Dict(done))
    ELSE LET p == normalize_project(Head(todo))
             g == Str(p.group.s)
         IN  normalize_projects(Tail(todo), Append(done, p),
                 IF Head(todo).isDict /\ g \notin Range(groups)
                 THEN Append(groups, g)
                 ELSE groups)

normalize(doc) ==
    LET projects == IF doc.projects.isDict THEN doc.projects.items ELSE <<>>
        groups   == IF doc.groups.isList THEN doc.groups.items ELSE <<Str(DEFAULT_GROUP)>>
    IN  normalize_projects(projects, <<>>,
                           insert_default(normalize_groups(groups, <<>>)))

\* json.load(f) reads the file as text: bytes that are not UTF-8 raise
\* UnicodeDecodeError, which is no json.JSONDecodeError and is not caught
load_raises(f) == f.kind = "undecodable"

\* the document load_data returns when it returns
load_data(f) ==
    normalize(CASE f.kind = "dict" -> f.doc
                [] f.kind \in {"absent", "unparsable", "notdict"} -> EmptyDoc)

\* ------------------------------------------------------------------------
\* save_data
\* ------------------------------------------------------------------------
save_data(data) == file' = FileOf(data)

\* ------------------------------------------------------------------------
\* Clock and calendar
\* ------------------------------------------------------------------------
\* dt.now().isoformat(timespec="seconds"): a reading of the clock in
\* milliseconds, cut to whole seconds
isoformat_seconds(now) == now \div 1000

\* strftime("%H:%M:%S") of a timestamp in seconds
strftime_hms(t) == <<(t \div 3600) % 24, (t \div 60) % 60, t % 60>>

\* E with 2^E <= odd/200 < 2^(E+1), counted up from e or down from e
RECURSIVE log2_up(_, _)
log2_up(odd, e) == IF 200 * (2 ^ (e + 1)) <= odd THEN log2_up(odd, e + 1) ELSE e

RECURSIVE log2_down(_, _)
log2_down(odd, e) == IF odd * (2 ^ e) < 200 THEN log2_down(odd, e + 1) ELSE 0 - e

floor_log2(odd) == IF odd >= 200 THEN log2_up(odd, 0) ELSE log2_down(odd, 0)

RECURSIVE pow2_mod25(_)
pow2_mod25(k) == IF k = 0 THEN 1 ELSE (2 * pow2_mod25(k - 1)) % 25

\* round(secs / 3600, 2) in hundredths of an hour, secs >= 0.  secs / 3600 is
\* the double nearest to the quotient and round() rounds that double
\* correctly, to even on an exact tie.  A quotient half-way between two
\* hundredths is odd/200 with odd = secs/18: the double's 53-bit significand
\* is odd * 2^(49-E) / 25 rounded, so the remainder mod 25 tells whether the
\* double lies below, on or above the half-way point.
round2_nonneg(secs) ==
    LET q   == secs \div 36
        r   == secs % 36
        odd == secs \div 18
        rem == ((odd % 25) * pow2_mod25(49 - floor_log2(odd))) % 25
    IN  IF r < 18 THEN q
        ELSE IF r > 18 THEN q + 1
        ELSE IF rem = 0 THEN (IF q % 2 = 0 THEN q ELSE q + 1)
        ELSE IF rem <= 12 THEN q
        ELSE q + 1

round2_hours(secs) == IF secs >= 0 THEN round2_nonneg(secs) ELSE 0 - round2_nonneg(0 - secs)

\* a bug: a negative duration is kept
session_duration_signed(start_s, end_s) == 10 * round2_hours(end_s - start_s)

\* duration = round(...); if duration < 0: duration = 0.0 -- in thousandths
\* of an hour
session_duration(start_s, end_s) ==
    LET d == round2_hours(end_s - start_s)
    IN  IF d < 0 THEN 0 ELSE 10 * d

\* an entry of time_logs as stop writes it: an object whose date is a string
\* and whose duration is a number
TimeLog(date, start_time, end_time, duration) ==
    [isDict |-> TRUE, date |-> date, dateIsStr |-> TRUE, start_time |-> start_time,
     end_time |-> end_time, duration |-> duration, durationKind |-> "number"]

\* a stored log whose duration is absent ("missing"), null, a string that is
\* no number ("text") or an integer too large for a float ("huge")
OddDuration(log, kind) == [log EXCEPT !.duration = 0, !.durationKind = kind]

\* a stored log whose date is a number
NumDate(log) == [log EXCEPT !.date = "", !.dateIsStr = FALSE]

\* a stored entry of time_logs that is not an object
NonDictLog ==
    [isDict |-> FALSE, date |-> "", dateIsStr |-> TRUE, start_time |-> <<0, 0, 0>>,
     end_time |-> <<0, 0, 0>>, duration |-> 0, durationKind |-> "missing"]

\* ------------------------------------------------------------------------
\* Access to a loaded document
\* ------------------------------------------------------------------------
Groups(data) == data.groups.items

Projects(data) == data.projects.items

InGroups(data, name) == Str(name) \in Range(Groups(data))

HasProject(data, name) == \E i \in 1..Len(Projects(data)) : Projects(data)[i].name = name

ProjectIndex(data, name) == CHOOSE i \in 1..Len(Projects(data)) : Projects(data)[i].name = name

GetProject(data, name) == Projects(data)[ProjectIndex(data, name)]

\* ------------------------------------------------------------------------
\* Responses
\* ------------------------------------------------------------------------
\* the arguments of /report; <<>> and "" stand for an argument that is absent
\* or empty (request.args.get(...) or None)
Filters(group, project, tag, date_from, date_to) ==
    [group |-> group, project |-> project, tag |-> tag,
     date_from |-> date_from, date_to |-> date_to]

NoFilters == Filters(<<>>, <<>>, <<>>, "", "")

\* what compute_all_totals and compute_group_totals return: per_project and
\* per_group list their entries in the order of the dict
Totals(per_project, overall, per_group) ==
    [per_project |-> per_project, overall |-> overall, per_group |-> per_group]

NoTotals == Totals(<<>>, 0, <<>>)

\* the text generate_markdown_report returns: the group sections it renders
\* and the overall total
Report(sections, overall) == [sections |-> sections, overall |-> overall]

NoReport == Report(<<>>, 0)

\* the body of a response; error names the exception that ended the handler
Body(error, totals, report) == [error |-> error, totals |-> totals, report |-> report]

NoBody == Body("", NoTotals, NoReport)

Resp(op, arg, arg2, status, clock) ==
    [op |-> op, arg |-> arg, arg2 |-> arg2, status |-> status, clock |-> clock,
     query |-> NoFilters, body |-> NoBody]

\* what a handler read from the clock and the calendar
Read(time, today) == [time |-> time, today |-> today]

NoRead == Read(0, "")

NoResp == Resp("none", <<>>, <<>>, "none", NoRead)

\* requests are handled one at a time: a handler runs when no response is
\* waiting to be sent
Idle == resp = NoResp

\* a request a thread of the server is handling: pc tells whether it has
\* called load_data ("loaded") and returned ("done"), data is what load_data
\* returned; seen counts the calls of save_data that came before its
\* load_data, wrote is the position of its own save_data among them
Work(pc, op, project, tags, group, clock, data, seen, wrote, status) ==
    [pc |-> pc, op |-> op, project |-> project, tags |-> tags, group |-> group,
     clock |-> clock, data |-> data, seen |-> seen, wrote |-> wrote, status |-> status]

NoWork == Work("idle", "none", <<>>, <<>>, <<>>, NoRead, EmptyDoc, 0, 0, "none")

Workers == {"t1", "t2"}

NoWorkers == [w \in Workers |-> NoWork]

\* a return before save_data: the file is not written
Reject(op, arg, arg2, status) ==
    /\ resp' = Resp(op, arg, arg2, status, NoRead)
    /\ UNCHANGED <<file, workers>>

Reply(op, arg, arg2, clock, data) ==
    /\ resp' = Resp(op, arg, arg2, "success", clock)
    /\ save_data(data)
    /\ UNCHANGED workers

\* the handler's return value goes to the client
send_response ==
    /\ ~Idle
    /\ resp' = NoResp
    /\ UNCHANGED <<file, workers>>

\* ------------------------------------------------------------------------
\* Groups CRUD
\* ------------------------------------------------------------------------
add_group(group_name) ==
    /\ Idle
    /\ LET data == load_data(file)
           name == strip(group_name)
       IN  IF name = <<>> THEN Reject("add_group", name, <<>>, "required")
           ELSE IF InGroups(data, name) THEN Reject("add_group", name, <<>>, "exists")
           ELSE Reply("add_group", name, <<>>, NoRead,
                      [data EXCEPT !.groups.items = Append(@, Str(name))])

\* a bug: the projects of the group are left behind
regroup_skip(projects, old, new) == projects

\* p["group"] = new for every project whose group is old
regroup(projects, old, new) ==
    [i \in 1..Len(projects) |->
        IF projects[i].group.s = old
        THEN [projects[i] EXCEPT !.group = GroupStr(new)]
        ELSE projects[i]]

\* [new if g == old else g for g in data["groups"]]
rename_in_groups(groups, old, new) ==
    [i \in 1..Len(groups) |-> IF groups[i] = Str(old) THEN Str(new) ELSE groups[i]]

\* a bug: the default group is not protected
rename_protected_none(old) == FALSE

\* if old == DEFAULT_GROUP: "You cannot rename Ungrouped"
rename_protected(old) == old = DEFAULT_GROUP

rename_group(old_group, new_group) ==
    /\ Idle
    /\ LET data == load_data(file)
           old  == strip(old_group)
           new  == strip(new_group)
       IN  IF old = <<>> \/ new = <<>> THEN Reject("rename_group", old, new, "required")
           ELSE IF rename_protected(old) THEN Reject("rename_group", old, new, "default_group")
           ELSE IF ~InGroups(data, old) THEN Reject("rename_group", old, new, "not_found")
           ELSE IF InGroups(data, new) THEN Reject("rename_group", old, new, "exists")
           ELSE Reply("rename_group", old, new, NoRead,
                      [data EXCEPT !.groups.items = rename_in_groups(@, old, new),
                                   !.projects.items = regroup(@, old, new)])

\* [g for g in data["groups"] if g != name]
remove_from_groups(groups, name) == Filter(groups, Range(groups) \ {Str(name)})

\* a bug: the default group is not protected
delete_protected_none(name) == FALSE

\* if name == DEFAULT_GROUP: "You cannot delete Ungrouped"
delete_protected(name) == name = DEFAULT_GROUP

\* a bug: every project is moved, not only those of the group
move_all(projects, name) ==
    [i \in 1..Len(projects) |-> [projects[i] EXCEPT !.group = GroupStr(DEFAULT_GROUP)]]

\* p["group"] = DEFAULT_GROUP for every project whose group is name
move_to_default(projects, name) == regroup(projects, name, DEFAULT_GROUP)

delete_group(group) ==
    /\ Idle
    /\ LET data == load_data(file)
           name == strip(group)
       IN  IF name = <<>> THEN Reject("delete_group", name, <<>>, "required")
           ELSE IF delete_protected(name) THEN Reject("delete_group", name, <<>>, "default_group")
           ELSE IF ~InGroups(data, name) THEN Reject("delete_group", name, <<>>, "not_found")
           ELSE Reply("delete_group", name, <<>>, NoRead,
                      [data EXCEPT !.projects.items = move_to_default(@, name),
                                   !.groups.items = remove_from_groups(@, name)])

\* ------------------------------------------------------------------------
\* Project CRUD
\* ------------------------------------------------------------------------
\* a bug: the group is appended although it is present
ensure_group_append(groups, group) == Append(groups, Str(group))

\* if group not in data["groups"]: data["groups"].append(group)
ensure_group(groups, group) ==
    IF Str(group) \in Range(groups) THEN groups ELSE Append(groups, Str(group))

\* a bug: a project of the same name is replaced
add_project_overwrite(form_name, tags_str, form_grp) ==
    /\ Idle
    /\ LET data  == load_data(file)
           name  == strip(form_name)
           tags  == parse_tags(tags_str)
           group == form_group(form_grp)
           fresh == Project(name, List(tags), List(<<>>), GroupStr(group), NoSession)
       IN  IF name = <<>> THEN Reject("add_project", name, group, "required")
           ELSE Reply("add_project", name, group, NoRead,
                      [data EXCEPT !.groups.items = ensure_group(@, group),
                                   !.projects.items =
                                       IF HasProject(data, name)
                                       THEN [@ EXCEPT ![ProjectIndex(data, name)] = fresh]
                                       ELSE Append(@, fresh)])

add_project(form_name, tags_str, form_grp) ==
    /\ Idle
    /\ LET data  == load_data(file)
           name  == strip(form_name)
           tags  == parse_tags(tags_str)
           group == form_group(form_grp)
       IN  IF name = <<>> THEN Reject("add_project", name, group, "required")
           ELSE IF HasProject(data, name) THEN Reject("add_project", name, group, "exists")
           ELSE Reply("add_project", name, group, NoRead,
                      [data EXCEPT !.groups.items = ensure_group(@, group),
                                   !.projects.items =
                                       Append(@, Project(name, List(tags), List(<<>>),
                                                         GroupStr(group), NoSession))])

\* a bug: an update closes the session of the project
update_project_closing(form_project, tags_str, form_grp) ==
    /\ Idle
    /\ LET data         == load_data(file)
           project_name == strip(form_project)
           tags         == parse_tags(tags_str)
           group        == form_group(form_grp)
       IN  IF ~HasProject(data, project_name)
           THEN Reject("update_project", project_name, group, "not_found")
           ELSE Reply("update_project", project_name, group, NoRead,
                      [data EXCEPT !.groups.items = ensure_group(@, group),
                                   !.projects.items[ProjectIndex(data, project_name)] =
                                       [@ EXCEPT !.tags = List(tags), !.group = GroupStr(group),
                                                 !.current_session = NoSession]])

update_project(form_project, tags_str, form_grp) ==
    /\ Idle
    /\ LET data         == load_data(file)
           project_name == strip(form_project)
           tags         == parse_tags(tags_str)
           group        == form_group(form_grp)
       IN  IF ~HasProject(data, project_name)
           THEN Reject("update_project", project_name, group, "not_found")
           ELSE Reply("update_project", project_name, group, NoRead,
                      [data EXCEPT !.groups.items = ensure_group(@, group),
                                   !.projects.items[ProjectIndex(data, project_name)] =
                                       [@ EXCEPT !.tags = List(tags), !.group = GroupStr(group)]])

reset_project(form_project) ==
    /\ Idle
    /\ LET data         == load_data(file)
           project_name == strip(form_project)
       IN  IF HasProject(data, project_name)
           THEN Reply("reset_project", project_name, <<>>, NoRead,
                      [data EXCEPT !.projects.items[ProjectIndex(data, project_name)] =
                                       [@ EXCEPT !.time_logs = List(<<>>),
                                                 !.current_session = NoSession]])
           ELSE Reject("reset_project", project_name, <<>>, "not_found")

\* del projects[project_name]
del_project(projects, name) ==
    Filter(projects, {p \in Range(projects) : p.name # name})

\* project_name comes from the URL path and is not stripped
delete_project(project_name) ==
    /\ Idle
    /\ LET data == load_data(file)
       IN  IF HasProject(data, project_name)
           THEN Reply("delete_project", project_name, <<>>, NoRead,
                      [data EXCEPT !.projects.items = del_project(@, project_name)])
           ELSE Reject("delete_project", project_name, <<>>, "not_found")

\* ------------------------------------------------------------------------
\* Time logging
\* ------------------------------------------------------------------------
\* a bug: a running session is started again
start_time_log_restart(form_project, now, today) ==
    /\ Idle
    /\ LET data           == load_data(file)
           project        == strip(form_project)
           start_time_iso == isoformat_seconds(now)
       IN  IF ~HasProject(data, project)
           THEN Reject("start_time_log", project, <<>>, "not_found")
           ELSE Reply("start_time_log", project, <<>>, Read(start_time_iso, today),
                      [data EXCEPT !.projects.items[ProjectIndex(data, project)].current_session =
                                       Session(start_time_iso, today)])

\* now is the reading of dt.now(), today the value of get_today_persian()
start_time_log(form_project, now, today) ==
    /\ Idle
    /\ LET data           == load_data(file)
           project        == strip(form_project)
           start_time_iso == isoformat_seconds(now)
       IN  IF ~HasProject(data, project)
           THEN Reject("start_time_log", project, <<>>, "not_found")
           ELSE IF GetProject(data, project).current_session.present
           THEN Reject("start_time_log", project, <<>>, "already_running")
           ELSE Reply("start_time_log", project, <<>>, Read(start_time_iso, today),
                      [data EXCEPT !.projects.items[ProjectIndex(data, project)].current_session =
                                       Session(start_time_iso, today)])

\* a bug: the log is dated by the day of the stop
log_date_today(current_session, today) == today

\* current_session.get("date", get_today_persian())
log_date(current_session, today) ==
    IF current_session.date = NoDate THEN today ELSE current_session.date

\* a bug: a stop without a session records an empty log
end_time_log_lenient(form_project, now, today) ==
    /\ Idle
    /\ LET data    == load_data(file)
           project == strip(form_project)
           t       == isoformat_seconds(now)
       IN  IF ~HasProject(data, project)
           THEN Reject("end_time_log", project, <<>>, "no_session")
           ELSE Reply("end_time_log", project, <<>>, Read(t, today),
                      [data EXCEPT !.projects.items[ProjectIndex(data, project)] =
                                       [@ EXCEPT !.time_logs.items =
                                                     Append(@, TimeLog(today, strftime_hms(t),
                                                                       strftime_hms(t), 0)),
                                                 !.current_session = NoSession]])

end_time_log(form_project, now, today) ==
    /\ Idle
    /\ LET data    == load_data(file)
           project == strip(form_project)
       IN  IF ~HasProject(data, project) \/ ~GetProject(data, project).current_session.present
           THEN Reject("end_time_log", project, <<>>, "no_session")
           ELSE LET current_session == GetProject(data, project).current_session
                    end_time_iso    == isoformat_seconds(now)
                    start_dt        == current_session.start_time
                    end_dt          == end_time_iso
                    duration        == session_duration(start_dt, end_dt)
                    time_log        == TimeLog(log_date(current_session, today),
                                               strftime_hms(start_dt), strftime_hms(end_dt),
                                               duration)
                IN  Reply("end_time_log", project, <<>>, Read(end_time_iso, today),
                          [data EXCEPT !.projects.items[ProjectIndex(data, project)] =
                                           [@ EXCEPT !.time_logs.items = Append(@, time_log),
                                                     !.current_session = NoSession]])

\* a bug: every log of the date is removed, whatever its start_time
other_logs_by_date(logs, date, start_time) ==
    Filter(logs, {l \in Range(logs) : l.date # date})

\* the logs kept by delete_time_log
other_logs(logs, date, start_time) ==
    Filter(logs, {l \in Range(logs) : ~(l.date = date /\ l.start_time = start_time)})

\* a bug: a project whose last log is deleted is deleted with it
delete_time_log_pruning(form_project, date, start_time) ==
    /\ Idle
    /\ LET data    == load_data(file)
           project == strip(form_project)
       IN  IF HasProject(data, project)
              /\ Len(other_logs(GetProject(data, project).time_logs.items, date, start_time))
                   < Len(GetProject(data, project).time_logs.items)
           THEN Reply("delete_time_log", project, <<>>, NoRead,
                      IF other_logs(GetProject(data, project).time_logs.items, date, start_time)
                             = <<>>
                      THEN [data EXCEPT !.projects.items = del_project(@, project)]
                      ELSE [data EXCEPT
                               !.projects.items[ProjectIndex(data, project)].time_logs.items =
                                   other_logs(@, date, start_time)])
           ELSE Reject("delete_time_log", project, <<>>, "not_found")

delete_time_log(form_project, date, start_time) ==
    /\ Idle
    /\ LET data    == load_data(file)
           project == strip(form_project)
       IN  IF HasProject(data, project)
              /\ Len(other_logs(GetProject(data, project).time_logs.items, date, start_time))
                   < Len(GetProject(data, project).time_logs.items)
           THEN Reply("delete_time_log", project, <<>>, NoRead,
                      [data EXCEPT !.projects.items[ProjectIndex(data, project)].time_logs.items =
                                       other_logs(@, date, start_time)])
           ELSE Reject("delete_time_log", project, <<>>, "not_found")

\* ------------------------------------------------------------------------
\* Aggregation
\* ------------------------------------------------------------------------
\* a value a function returned, or the exception it raised
Ok(value) == [error |-> "", value |-> value]

Raise(error) == [error |-> error, value |-> 0]

\* round(t, 2) of a total of t thousandths of an hour, t >= 0, as a whole
\* number of hundredths in thousandths.  A total half-way between two
\* hundredths is odd/200 with odd = t/5; it is rounded as the double nearest
\* to it is, which is the total when it is the duration of one log.
round2_thousandths(t) ==
    LET q   == t \div 10
        r   == t % 10
        odd == t \div 5
        rem == ((odd % 25) * pow2_mod25(49 - floor_log2(odd))) % 25
    IN  IF r < 5 THEN 10 * q
        ELSE IF r > 5 THEN 10 * (q + 1)
        ELSE IF rem = 0 THEN (IF q % 2 = 0 THEN 10 * q ELSE 10 * (q + 1))
        ELSE IF rem <= 12 THEN 10 * q
        ELSE 10 * (q + 1)

\* log.get("duration", 0.0)
log_get_duration(log) ==
    IF log.durationKind = "missing"
    THEN [kind |-> "number", value |-> 0]
    ELSE [kind |-> log.durationKind, value |-> log.duration]

\* float(x) raises ValueError for a string that is no number, which is
\* caught, and OverflowError for an integer too large, which is not
_safe_float(x) ==
    IF x.kind = "null" THEN Ok(0)
    ELSE IF x.kind = "number" THEN Ok(x.value)
    ELSE IF x.kind = "huge" THEN Raise("OverflowError")
    ELSE Ok(0)

\* the loop of compute_project_total_hours: log.get raises AttributeError
\* when the entry is not an object
RECURSIVE sum_durations(_, _)
sum_durations(logs, total) ==
    IF logs = <<>> THEN Ok(total)
    ELSE IF ~Head(logs).isDict THEN Raise("AttributeError")
    ELSE LET d == _safe_float(log_get_duration(Head(logs)))
         IN  IF d.error # "" THEN d ELSE sum_durations(Tail(logs), total + d.value)

compute_project_total_hours(project) == sum_durations(project.time_logs.items, 0)

\* the loop of compute_all_totals: overall adds up the totals before they
\* are rounded
RECURSIVE all_totals(_, _, _)
all_totals(todo, per_project, overall) ==
    IF todo = <<>>
    THEN [error |-> "", per_project |-> per_project, overall |-> round2_thousandths(overall)]
    ELSE LET t == compute_project_total_hours(Head(todo))
         IN  IF t.error # ""
             THEN [error |-> t.error, per_project |-> <<>>, overall |-> 0]
             ELSE all_totals(Tail(todo),
                             Append(per_project, [name |-> Head(todo).name,
                                                  hours |-> round2_thousandths(t.value)]),
                             overall + t.value)

compute_all_totals(projects) == all_totals(projects, <<>>, 0)

\* (p.get("group") or DEFAULT_GROUP).strip() or DEFAULT_GROUP, for a project
\* of a loaded document, whose group is a string
project_group(p) == form_group(p.group.s)

\* group_totals.setdefault(grp, 0.0); group_totals[grp] += ...
add_to_group(group_totals, grp, hours) ==
    LET known == \E i \in 1..Len(group_totals) : group_totals[i].group = grp
        with  == IF known THEN group_totals
                 ELSE Append(group_totals, [group |-> grp, hours |-> 0])
    IN  [i \in 1..Len(with) |->
            IF with[i].group = grp THEN [with[i] EXCEPT !.hours = @ + hours] ELSE with[i]]

RECURSIVE group_sums(_, _)
group_sums(todo, group_totals) ==
    IF todo = <<>> THEN [error |-> "", per_group |-> group_totals]
    ELSE LET t == compute_project_total_hours(Head(todo))
         IN  IF t.error # "" THEN [error |-> t.error, per_group |-> <<>>]
             ELSE group_sums(Tail(todo),
                             add_to_group(group_totals, project_group(Head(todo)), t.value))

\* {g: round(v, 2) for g, v in group_totals.items()}
compute_group_totals(data) ==
    LET sums == group_sums(Projects(data), <<>>)
    IN  [error |-> sums.error,
         per_group |-> [i \in 1..Len(sums.per_group) |->
                           [group |-> sums.per_group[i].group,
                            hours |-> round2_thousandths(sums.per_group[i].hours)]]]

\* ------------------------------------------------------------------------
\* Order of strings
\* ------------------------------------------------------------------------
\* str.lower() of a token
lower_token(t) ==
    CASE t = "A" -> "a"
      [] t = "B" -> "b"
      [] t = "Ungrouped" -> "ungrouped"
      [] OTHER -> t

lower(s) == [i \in 1..Len(s) |-> lower_token(s[i])]

\* the lower-case tokens in the order of their first characters
TokenOrder == <<WS, ",", "a", "b", "p", "q", "ungrouped", "x">>

token_rank(t) == CHOOSE i \in 1..Len(TokenOrder) : TokenOrder[i] = t

\* a < b for two strings
RECURSIVE str_lt(_, _)
str_lt(a, b) ==
    IF b = <<>> THEN FALSE
    ELSE IF a = <<>> THEN TRUE
    ELSE IF Head(a) = Head(b) THEN str_lt(Tail(a), Tail(b))
    ELSE token_rank(Head(a)) < token_rank(Head(b))

\* the dates in the order of their strings; "" is what log.get("date", "")
\* gives for a log without a date
DateOrder == <<"", "1403-01-01", "1403-01-02">>

date_rank(d) == CHOOSE i \in 1..Len(DateOrder) : DateOrder[i] = d

\* a < b for two times "HH:MM:SS"
hms_lt(a, b) ==
    \/ a[1] < b[1]
    \/ a[1] = b[1] /\ a[2] < b[2]
    \/ a[1] = b[1] /\ a[2] = b[2] /\ a[3] < b[3]

\* ------------------------------------------------------------------------
\* group_projects
\* ------------------------------------------------------------------------
\* {g: [] for g in groups}
RECURSIVE group_keys(_, _)
group_keys(groups, grouped) ==
    IF groups = <<>> THEN grouped
    ELSE IF \E i \in 1..Len(grouped) : grouped[i].group = Head(groups).s
         THEN group_keys(Tail(groups), grouped)
         ELSE group_keys(Tail(groups), Append(grouped, [group |-> Head(groups).s, items |-> <<>>]))

\* grouped[grp].append((pname, p)), after grouped[grp] = [] for a group that
\* is not in groups
RECURSIVE place_projects(_, _)
place_projects(todo, grouped) ==
    IF todo = <<>> THEN grouped
    ELSE LET grp   == project_group(Head(todo))
             known == \E i \in 1..Len(grouped) : grouped[i].group = grp
             with  == IF known THEN grouped
                      ELSE Append(grouped, [group |-> grp, items |-> <<>>])
         IN  place_projects(Tail(todo),
                            [i \in 1..Len(with) |->
                                IF with[i].group = grp
                                THEN [with[i] EXCEPT !.items = Append(@, Head(todo))]
                                ELSE with[i]])

\* the place of p among projects sorted by x[0].lower(): behind those that
\* are not greater, as a stable sort puts it
RECURSIVE insert_by_name(_, _)
insert_by_name(sorted, p) ==
    IF sorted = <<>> THEN <<p>>
    ELSE IF str_lt(lower(p.name), lower(Head(sorted).name)) THEN <<p>> \o sorted
    ELSE <<Head(sorted)>> \o insert_by_name(Tail(sorted), p)

RECURSIVE sort_by_name(_, _)
sort_by_name(items, sorted) ==
    IF items = <<>> THEN sorted
    ELSE sort_by_name(Tail(items), insert_by_name(sorted, Head(items)))

group_projects(projects, groups) ==
    LET grouped == place_projects(projects, group_keys(groups, <<>>))
    IN  [i \in 1..Len(grouped) |->
            [group |-> grouped[i].group, items |-> sort_by_name(grouped[i].items, <<>>)]]

\* ------------------------------------------------------------------------
\* generate_markdown_report
\* ------------------------------------------------------------------------
\* a bug: the tag filter is not applied
tag_excluded_never(project, filters) == FALSE

\* if filters["tag"] not in project.get("tags", []): filtered_logs = []
tag_excluded(project, filters) ==
    filters.tag # <<>> /\ filters.tag \notin Range(project.tags.items)

\* the exception of [log for log in ... if log.get("date", "") >= bound]:
\* log.get raises AttributeError on an entry that is no object, and a date
\* that is a number is not compared with a string
RECURSIVE date_filter_error(_)
date_filter_error(logs) ==
    IF logs = <<>> THEN ""
    ELSE IF ~Head(logs).isDict THEN "AttributeError"
    ELSE IF ~Head(logs).dateIsStr THEN "TypeError"
    ELSE date_filter_error(Tail(logs))

\* filtered_logs after the tag and the date filters
filter_logs(project, filters) ==
    LET tagged == IF tag_excluded(project, filters) THEN <<>> ELSE project.time_logs.items
        since  == IF filters.date_from = "" THEN tagged
                  ELSE Filter(tagged, {l \in Range(tagged) :
                                          date_rank(l.date) >= date_rank(filters.date_from)})
        until  == IF filters.date_to = "" THEN since
                  ELSE Filter(since, {l \in Range(since) :
                                         date_rank(l.date) <= date_rank(filters.date_to)})
    IN  IF filters.date_from # "" /\ date_filter_error(tagged) # ""
        THEN [error |-> date_filter_error(tagged), logs |-> <<>>]
        ELSE IF filters.date_to # "" /\ date_filter_error(since) # ""
        THEN [error |-> date_filter_error(since), logs |-> <<>>]
        ELSE [error |-> "", logs |-> until]

\* the exception of sorted(filtered_logs, key=...): the key of every log is
\* taken first, then logs are compared, a date that is a number with a date
\* that is a string when both occur
sort_error(logs) ==
    IF \E i \in 1..Len(logs) : ~logs[i].isDict THEN "AttributeError"
    ELSE IF \E i, j \in 1..Len(logs) : logs[i].dateIsStr # logs[j].dateIsStr THEN "TypeError"
    ELSE ""

\* (x.get("date", ""), x.get("start_time", "")) of a is less than that of b
log_key_lt(a, b) ==
    \/ date_rank(a.date) < date_rank(b.date)
    \/ a.date = b.date /\ hms_lt(a.start_time, b.start_time)

RECURSIVE insert_by_key(_, _)
insert_by_key(sorted, log) ==
    IF sorted = <<>> THEN <<log>>
    ELSE IF log_key_lt(log, Head(sorted)) THEN <<log>> \o sorted
    ELSE <<Head(sorted)>> \o insert_by_key(Tail(sorted), log)

RECURSIVE sort_logs(_, _)
sort_logs(logs, sorted) ==
    IF logs = <<>> THEN sorted
    ELSE sort_logs(Tail(logs), insert_by_key(sorted, Head(logs)))

\* the loop over the sorted logs of a project: one line for each, and the
\* sum of their durations before rounding
RECURSIVE render_logs(_, _, _)
render_logs(logs, lines, total) ==
    IF logs = <<>> THEN [error |-> "", lines |-> lines, total |-> total]
    ELSE LET d == _safe_float(log_get_duration(Head(logs)))
         IN  IF d.error # "" THEN [error |-> d.error, lines |-> <<>>, total |-> 0]
             ELSE render_logs(Tail(logs),
                              Append(lines, [date |-> Head(logs).date,
                                             start_time |-> Head(logs).start_time,
                                             end_time |-> Head(logs).end_time,
                                             hours |-> round2_thousandths(d.value)]),
                              total + d.value)

ProjectSection(error, rendered, name, tags, lines, total) ==
    [error |-> error, rendered |-> rendered, name |-> name, tags |-> tags,
     lines |-> lines, total |-> total]

\* the project is skipped (continue)
NoSection == ProjectSection("", FALSE, <<>>, <<>>, <<>>, 0)

\* the body of the loop over the projects of a group; total is project_total
\* before rounding
project_section(project, filters) ==
    LET kept == filter_logs(project, filters)
        body == render_logs(sort_logs(kept.logs, <<>>), <<>>, 0)
    IN  IF filters.project # <<>> /\ filters.project # project.name THEN NoSection
        ELSE IF project.time_logs.items = <<>> THEN NoSection
        ELSE IF kept.error # "" THEN [NoSection EXCEPT !.error = kept.error]
        ELSE IF kept.logs = <<>> THEN NoSection
        ELSE IF sort_error(kept.logs) # "" THEN [NoSection EXCEPT !.error = sort_error(kept.logs)]
        ELSE IF body.error # "" THEN [NoSection EXCEPT !.error = body.error]
        ELSE ProjectSection("", TRUE, project.name, project.tags.items, body.lines, body.total)

\* what the loop over the projects of a group has so far: the project
\* sections rendered, their totals rounded, and group_total before rounding
GroupSoFar(error, projects, total) == [error |-> error, projects |-> projects, total |-> total]

\* one pass of the loop over the projects of a group, s being the section of
\* the project
add_project_section(so_far, s) ==
    IF s.error # "" THEN GroupSoFar(s.error, <<>>, 0)
    ELSE IF ~s.rendered THEN so_far
    ELSE GroupSoFar("",
                    Append(so_far.projects, [name |-> s.name, tags |-> s.tags,
                                             lines |-> s.lines,
                                             total |-> round2_thousandths(s.total)]),
                    so_far.total + s.total)

\* the loop over the projects of a group, which an exception ends
RECURSIVE group_section(_, _, _)
group_section(items, filters, so_far) ==
    IF items = <<>> \/ so_far.error # "" THEN so_far
    ELSE group_section(Tail(items), filters,
                       add_project_section(so_far, project_section(Head(items), filters)))

\* what the loop over the groups has so far: the sections of the groups that
\* have a project section (group_any), and total_overall_hours before
\* rounding
ReportSoFar(error, sections, overall) ==
    [error |-> error, sections |-> sections, overall |-> overall]

\* one pass of the loop over the groups, g being what the loop over the
\* projects of the group gives
add_group_section(so_far, group, g) ==
    IF g.error # "" THEN ReportSoFar(g.error, <<>>, 0)
    ELSE IF g.projects = <<>> THEN so_far
    ELSE ReportSoFar("",
                     Append(so_far.sections, [group |-> group, projects |-> g.projects,
                                              total |-> round2_thousandths(g.total)]),
                     so_far.overall + g.total)

\* the loop over the groups, which skips the groups the group filter
\* excludes, and which an exception ends
RECURSIVE report_sections(_, _, _)
report_sections(grouped, filters, so_far) ==
    IF grouped = <<>> \/ so_far.error # "" THEN so_far
    ELSE report_sections(Tail(grouped), filters,
                         IF filters.group # <<>> /\ filters.group # Head(grouped).group
                         THEN so_far
                         ELSE add_group_section(so_far, Head(grouped).group,
                                                group_section(Head(grouped).items, filters,
                                                              GroupSoFar("", <<>>, 0))))

\* total_overall_hours is rounded where the report ends
rounded_overall(r) ==
    [error |-> r.error, sections |-> r.sections, overall |-> round2_thousandths(r.overall)]

generate_markdown_report(data, filters) ==
    rounded_overall(report_sections(group_projects(Projects(data), Groups(data)), filters,
                                    ReportSoFar("", <<>>, 0)))

\* ------------------------------------------------------------------------
\* Handlers that read
\* ------------------------------------------------------------------------
\* the handler returns body, or ends with the exception body names: the
\* file is not written
Answer(op, query, body) ==
    /\ resp' = [Resp(op, <<>>, <<>>, IF body.error = "" THEN "ok" ELSE "exception", NoRead)
                   EXCEPT !.query = query, !.body = body]
    /\ UNCHANGED <<file, workers>>

get_all_time_totals ==
    /\ Idle
    /\ IF load_raises(file)
       THEN Answer("get_all_time_totals", NoFilters, Body("UnicodeDecodeError", NoTotals, NoReport))
       ELSE LET data      == load_data(file)
                totals    == compute_all_totals(Projects(data))
                per_group == compute_group_totals(data)
            IN  IF totals.error # ""
                THEN Answer("get_all_time_totals", NoFilters, Body(totals.error, NoTotals, NoReport))
                ELSE IF per_group.error # ""
                THEN Answer("get_all_time_totals", NoFilters,
                            Body(per_group.error, NoTotals, NoReport))
                ELSE Answer("get_all_time_totals", NoFilters,
                            Body("", Totals(totals.per_project, totals.overall,
                                            per_group.per_group), NoReport))

\* what /report renders and /download_report sends
report_body(md_report) ==
    Body(md_report.error, NoTotals,
         IF md_report.error = "" THEN Report(md_report.sections, md_report.overall)
         ELSE NoReport)

\* /report and /download_report
report(filters) ==
    /\ Idle
    /\ IF load_raises(file)
       THEN Answer("report", filters, Body("UnicodeDecodeError", NoTotals, NoReport))
       ELSE Answer("report", filters,
                   report_body(generate_markdown_report(load_data(file), filters)))

\* ------------------------------------------------------------------------
\* Requests handled at the same time
\* ------------------------------------------------------------------------
\* what a handler does between load_data and save_data: the status it
\* returns and, when that is "success", the document it saves
Outcome(status, data) == [status |-> status, data |-> data]

add_project_body(data, form_name, tags_str, form_grp) ==
    LET name  == strip(form_name)
        tags  == parse_tags(tags_str)
        group == form_group(form_grp)
    IN  IF name = <<>> THEN Outcome("required", data)
        ELSE IF HasProject(data, name) THEN Outcome("exists", data)
        ELSE Outcome("success",
                     [data EXCEPT !.groups.items = ensure_group(@, group),
                                  !.projects.items =
                                      Append(@, Project(name, List(tags), List(<<>>),
                                                        GroupStr(group), NoSession))])

update_project_body(data, form_project, tags_str, form_grp) ==
    LET project_name == strip(form_project)
        tags         == parse_tags(tags_str)
        group        == form_group(form_grp)
    IN  IF ~HasProject(data, project_name) THEN Outcome("not_found", data)
        ELSE Outcome("success",
                     [data EXCEPT !.groups.items = ensure_group(@, group),
                                  !.projects.items[ProjectIndex(data, project_name)] =
                                      [@ EXCEPT !.tags = List(tags), !.group = GroupStr(group)]])

\* a bug: a running session is started again
start_time_log_body_restart(data, form_project, now, today) ==
    LET project == strip(form_project)
    IN  IF ~HasProject(data, project) THEN Outcome("not_found", data)
        ELSE Outcome("success",
                     [data EXCEPT !.projects.items[ProjectIndex(data, project)].current_session =
                                      Session(isoformat_seconds(now), today)])

start_time_log_body(data, form_project, now, today) ==
    LET project == strip(form_project)
    IN  IF ~HasProject(data, project) THEN Outcome("not_found", data)
        ELSE IF GetProject(data, project).current_session.present
        THEN Outcome("already_running", data)
        ELSE Outcome("success",
                     [data EXCEPT !.projects.items[ProjectIndex(data, project)].current_session =
                                      Session(isoformat_seconds(now), today)])

end_time_log_body(data, form_project, now, today) ==
    LET project == strip(form_project)
    IN  IF ~HasProject(data, project) \/ ~GetProject(data, project).current_session.present
        THEN Outcome("no_session", data)
        ELSE LET current_session == GetProject(data, project).current_session
                 start_dt        == current_session.start_time
                 end_dt          == isoformat_seconds(now)
                 time_log        == TimeLog(log_date(current_session, today),
                                            strftime_hms(start_dt), strftime_hms(end_dt),
                                            session_duration(start_dt, end_dt))
             IN  Outcome("success",
                         [data EXCEPT !.projects.items[ProjectIndex(data, project)] =
                                          [@ EXCEPT !.time_logs.items = Append(@, time_log),
                                                    !.current_session = NoSession]])

\* the handler of the request work, run on the document data
handle(work, data) ==
    CASE work.op = "add_project" ->
             add_project_body(data, work.project, work.tags, work.group)
      [] work.op = "update_project" ->
             update_project_body(data, work.project, work.tags, work.group)
      [] work.op = "start_time_log" ->
             start_time_log_body(data, work.project, work.clock.time, work.clock.today)
      [] work.op = "end_time_log" ->
             end_time_log_body(data, work.project, work.clock.time, work.clock.today)

\* the calls of save_data so far
Saves == Cardinality({w \in Workers : workers[w].wrote > 0})

\* a thread takes a request and calls load_data; clock is what the handler
\* will read from the clock and the calendar
accept(w, op, project, tags, group, clock) ==
    /\ workers[w].pc = "idle"
    /\ workers' = [workers EXCEPT ![w] =
                       Work("loaded", op, project, tags, group, clock,
                            load_data(file), Saves, 0, "none")]
    /\ UNCHANGED <<file, resp>>

\* a bug that is none: the handler runs on the file as it is when it saves
complete_atomic(w) ==
    /\ workers[w].pc = "loaded"
    /\ LET out == handle(workers[w], load_data(file))
       IN  IF out.status = "success"
           THEN /\ save_data(out.data)
                /\ workers' = [workers EXCEPT ![w].pc = "done", ![w].status = out.status,
                                              ![w].wrote = Saves + 1]
           ELSE /\ workers' = [workers EXCEPT ![w].pc = "done", ![w].status = out.status]
                /\ UNCHANGED file
    /\ UNCHANGED resp

\* the thread runs the rest of the handler on the document it loaded: it
\* calls save_data when the request succeeds, and returns
complete(w) ==
    /\ workers[w].pc = "loaded"
    /\ LET out == handle(workers[w], workers[w].data)
       IN  IF out.status = "success"
           THEN /\ save_data(out.data)
                /\ workers' = [workers EXCEPT ![w].pc = "done", ![w].status = out.status,
                                              ![w].wrote = Saves + 1]
           ELSE /\ workers' = [workers EXCEPT ![w].pc = "done", ![w].status = out.status]
                /\ UNCHANGED file
    /\ UNCHANGED resp

\* ------------------------------------------------------------------------
\* Inputs
\* ------------------------------------------------------------------------
P == <<"p">>

Q == <<"q">>

GA == <<"A">>

GB == <<"B">>

\* form values of a project name: blank, plain and untrimmed
NameInputs == {<<>>, P, <<WS, "q">>}

\* project names in the path of a URL
PathInputs == {P, Q, <<WS, "q">>}

\* the names of two projects
ProjectInputs == {P, Q}

\* form values of a group name: blank, the default, untrimmed and plain
GroupInputs == {<<>>, DEFAULT_GROUP, <<WS, "A">>, GB}

\* form values of tags: none, and "x" among blank pieces
TagInputs == {<<>>, <<WS, "x", ",", WS>>}

\* readings of dt.now() in milliseconds: 10:00:00, 10:00:54, 10:07:30.9 and
\* 11:30:00
Clock == {36000000, 36054000, 36450900, 41400000}

\* values of get_today_persian()
Today == {"1403-01-01", "1403-01-02"}

\* the time_logs of every project stay within the bound
InBounds(f) ==
    \A i \in 1..Len(f.doc.projects.items) :
        Len(f.doc.projects.items[i].time_logs.items) <= MaxLogs

\* ------------------------------------------------------------------------
\* Stored documents the run starts from
\* ------------------------------------------------------------------------
Log0 == TimeLog("1403-01-01", <<10, 0, 0>>, <<10, 0, 0>>, 0)

RawGroupLists ==
    { NonList,
      List(<<>>),
      List(<<Str(GA)>>),
      List(<<Str(GB), Str(DEFAULT_GROUP)>>),
      List(<<Str(<<WS, "A">>), Str(GA)>>),
      List(<<Str(<<>>), Str(<<WS>>)>>),
      List(<<NonStr, Str(<<"B", WS>>)>>),
      List(<<Str(GA), Str(GA)>>) }

RawFirst ==
    { NonDictProject(P),
      Project(P, NonList, List(<<Log0>>), GroupStr(GA), NoSession),
      Project(P, List(<<<<"x">>>>), NonList, GroupStr(<<WS, "B", WS>>), NoSession),
      Project(P, List(<<>>), List(<<>>), GroupMissing, Session(36000, "1403-01-01")),
      Project(P, List(<<>>), List(<<>>), GroupNonStr, NoSession),
      Project(P, List(<<>>), List(<<>>), GroupStr(<<WS>>), NoSession) }

RawSecond ==
    { NonDictProject(Q),
      Project(Q, List(<<>>), List(<<>>), GroupStr(<<"A", WS>>), NoSession),
      Project(Q, List(<<>>), List(<<>>), GroupStr(GB), NoSession) }

RawProjectDicts ==
    {NonDict, Dict(<<>>)}
    \cup {Dict(<<a>>) : a \in RawFirst}
    \cup {Dict(<<a, b>>) : a \in RawFirst, b \in RawSecond}
    \cup {Dict(<<b, a>>) : a \in RawFirst, b \in RawSecond}

RawFiles ==
    {NoFile("absent"), NoFile("unparsable"), NoFile("notdict")}
    \cup {FileOf(Doc(g, ps)) : g \in RawGroupLists, ps \in RawProjectDicts}

\* stored logs of 0.004, 1.5 and 0.006 hours; LogB is the latest
LogA == TimeLog("1403-01-01", <<10, 0, 0>>, <<10, 0, 14>>, 4)

LogB == TimeLog("1403-01-02", <<9, 0, 0>>, <<10, 30, 0>>, 1500)

LogC == TimeLog("1403-01-01", <<8, 0, 0>>, <<8, 0, 22>>, 6)

\* stored values of time_logs: well formed, out of order, with durations
\* that are no numbers, with an entry that is no object, with a date that is
\* a number
StoredLogs ==
    { <<>>,
      <<LogA>>,
      <<LogB, LogC>>,
      <<OddDuration(LogA, "null"), OddDuration(LogC, "text")>>,
      <<OddDuration(LogC, "missing"), LogB>>,
      <<OddDuration(LogA, "huge")>>,
      <<LogA, NonDictLog>>,
      <<NumDate(LogB)>>,
      <<NumDate(LogB), LogA>> }

\* stored documents for the aggregation and the report: p and q in either
\* order, each with or without the tag x, p in the default group or in A
StoredProjects ==
    {Dict(<<>>)}
    \cup {Dict(<<Project(P, List(pt), List(pl), GroupStr(pg), NoSession)>>) :
             pt \in {<<>>, <<<<"x">>>>}, pl \in StoredLogs, pg \in {DEFAULT_GROUP, GA}}
    \cup UNION {
            {Dict(<<Project(P, List(pt), List(pl), GroupStr(pg), NoSession),
                    Project(Q, List(qt), List(ql), GroupStr(GA), NoSession)>>),
             Dict(<<Project(Q, List(qt), List(ql), GroupStr(GA), NoSession),
                    Project(P, List(pt), List(pl), GroupStr(pg), NoSession)>>)} :
             pt \in {<<>>, <<<<"x">>>>}, qt \in {<<>>, <<<<"x">>>>},
             pl \in StoredLogs, ql \in StoredLogs, pg \in {DEFAULT_GROUP, GA}}

StoredFiles ==
    {NoFile("absent"), NoFile("unparsable"), NoFile("notdict"), NoFile("undecodable")}
    \cup {FileOf(Doc(List(<<Str(DEFAULT_GROUP), Str(GA)>>), ps)) : ps \in StoredProjects}

\* the arguments of /report
FilterInputs ==
    {Filters(g, p, t, from, to) :
        g \in {<<>>, GA}, p \in {<<>>, P}, t \in {<<>>, <<"x">>},
        from \in {"", "1403-01-02"}, to \in {"", "1403-01-01"}}

Init ==
    /\ file \in RawFiles
    /\ resp = NoResp
    /\ workers = NoWorkers

\* ------------------------------------------------------------------------
\* Requests
\* ------------------------------------------------------------------------
\* names, groups and tags are form values, paths the names in a URL, timed
\* the form values of the project a timer request names
Requests(names, paths, groups, tags, timed, clock, today) ==
    \/ \E g \in groups : add_group(g)
    \/ \E old \in groups, new \in groups : rename_group(old, new)
    \/ \E g \in groups : delete_group(g)
    \/ \E n \in names, t \in tags, g \in groups : add_project(n, t, g)
    \/ \E n \in names, t \in tags, g \in groups : update_project(n, t, g)
    \/ \E n \in names : reset_project(n)
    \/ \E n \in paths : delete_project(n)
    \/ \E n \in timed, now \in clock, d \in today : start_time_log(n, now, d)
    \/ \E n \in timed, now \in clock, d \in today :
           end_time_log(n, now, d) /\ InBounds(file')
    \/ \E n \in timed, d \in today, now \in clock :
           delete_time_log(n, d, strftime_hms(isoformat_seconds(now)))
    \/ send_response

\* every request on two projects and three groups; one project is timed,
\* with one reading of the clock and one date
Next ==
    Requests(NameInputs, PathInputs, GroupInputs, {<<>>}, {<<>>, P}, {36000000}, {"1403-01-01"})

Spec == Init /\ [][Next]_vars

\* two projects in the default group, the calendar moving between two dates
InitTimer ==
    /\ file \in {NoFile("absent"),
                 FileOf(Doc(List(<<Str(DEFAULT_GROUP)>>),
                            Dict(<<Project(P, List(<<>>), List(<<>>), GroupStr(DEFAULT_GROUP),
                                           Session(36000, NoDate)),
                                   Project(Q, List(<<>>), List(<<>>), GroupStr(DEFAULT_GROUP),
                                           NoSession)>>)))}
    /\ resp = NoResp
    /\ workers = NoWorkers

NextTimer == Requests(NameInputs, PathInputs, {<<>>}, {<<>>}, NameInputs, {36000000}, Today)

SpecTimer == InitTimer /\ [][NextTimer]_vars

\* one project, the clock moving between four readings, backwards too
InitClock ==
    /\ file \in {NoFile("absent")}
    /\ resp = NoResp
    /\ workers = NoWorkers

NextClock == Requests({<<>>, P}, {P}, {<<>>}, {<<>>}, {<<>>, P}, Clock, {"1403-01-01"})

SpecClock == InitClock /\ [][NextClock]_vars

\* every stored document, one project name, two groups and two tag lists
NextNorm ==
    Requests({<<>>, P}, {P}, {<<>>, <<WS, "A">>}, TagInputs, {<<>>, P}, {36000000}, {"1403-01-01"})

SpecNorm == Init /\ [][NextNorm]_vars

\* the handlers that read, on every stored file
InitRead ==
    /\ file \in StoredFiles
    /\ resp = NoResp
    /\ workers = NoWorkers

NextRead ==
    \/ get_all_time_totals
    \/ \E filters \in FilterInputs : report(filters)
    \/ send_response

SpecRead == InitRead /\ [][NextRead]_vars

\* two threads, one request each, on a file with the project p, running or
\* not, or on no file
RaceFiles ==
    {NoFile("absent")}
    \cup {FileOf(Doc(List(<<Str(DEFAULT_GROUP)>>),
                     Dict(<<Project(P, List(<<>>), List(<<>>), GroupStr(DEFAULT_GROUP), s)>>))) :
             s \in {NoSession, Session(36000, "1403-01-01")}}

InitRace ==
    /\ file \in RaceFiles
    /\ resp = NoResp
    /\ workers = NoWorkers

NextRace ==
    \E w \in Workers :
        \/ \E n \in {P, Q}, g \in {<<>>, GA} : accept(w, "add_project", n, <<>>, g, NoRead)
        \/ \E t \in TagInputs : accept(w, "update_project", P, t, <<>>, NoRead)
        \/ \E now \in {36000000, 36054000} :
               accept(w, "start_time_log", P, <<>>, <<>>, Read(now, "1403-01-01"))
        \/ \E now \in {36054000, 41400000} :
               accept(w, "end_time_log", P, <<>>, <<>>, Read(now, "1403-01-02"))
        \/ complete(w)

SpecRace == InitRace /\ [][NextRace]_vars

\* a stored log of 0.5 hours that starts when LogB starts, a day earlier
LogD == TimeLog("1403-01-01", <<9, 0, 0>>, <<9, 30, 0>>, 500)

\* no file, or p in the group A with two logs and q with one
LogsFiles ==
    {NoFile("absent"),
     FileOf(Doc(List(<<Str(DEFAULT_GROUP), Str(GA)>>),
                Dict(<<Project(P, List(<<>>), List(<<LogD, LogB>>), GroupStr(GA), NoSession),
                       Project(Q, List(<<>>), List(<<LogA>>), GroupStr(DEFAULT_GROUP),
                               NoSession)>>)))}

\* form values of start_time: 09:00:00 and 10:00:00
StartInputs == {<<9, 0, 0>>, <<10, 0, 0>>}

InitLogs ==
    /\ file \in LogsFiles
    /\ resp = NoResp
    /\ workers = NoWorkers

\* every request on two projects with stored logs; p is timed, started at
\* 10:00:00 and stopped at 10:00:54, and logs are deleted by either date and
\* either start_time
NextLogs ==
    \/ add_group(GB)
    \/ \E old \in {GA, GB} : rename_group(old, GB)
    \/ \E g \in {GA, GB} : delete_group(g)
    \/ \E n \in ProjectInputs : add_project(n, <<>>, GA)
    \/ update_project(Q, <<>>, GA)
    \/ \E n \in ProjectInputs : reset_project(n)
    \/ \E n \in ProjectInputs : delete_project(n)
    \/ \E d \in Today : start_time_log(P, 36000000, d)
    \/ end_time_log(P, 36054000, "1403-01-02") /\ InBounds(file')
    \/ \E n \in ProjectInputs, d \in Today, start_time \in StartInputs :
           delete_time_log(n, d, start_time)
    \/ send_response

SpecLogs == InitLogs /\ [][NextLogs]_vars

\* ------------------------------------------------------------------------
\* Properties
\* ------------------------------------------------------------------------
ProjectNames == {P, Q}

\* the handler whose response is waiting has called save_data
Saved == resp.status = "success"

Running(d, name) == HasProject(d, name) /\ GetProject(d, name).current_session.present

LastLog(p) == p.time_logs.items[Len(p.time_logs.items)]

GroupsResolve(d) ==
    /\ d.groups.isList
    /\ d.projects.isDict
    /\ \A i \in 1..Len(d.projects.items) :
          LET p == d.projects.items[i]
          IN  /\ p.isDict
              /\ p.group.kind = "str"
              /\ Str(p.group.s) \in Range(d.groups.items)

\* C1: in the document load_data returns for the stored file, and in the
\* document a handler has just saved, the group of every project is one of
\* groups.
C1_GroupsResolve ==
    /\ GroupsResolve(load_data(file))
    /\ Saved => GroupsResolve(file.doc)

\* a group was renamed and a project followed it
C1_Witness ==
    /\ resp.op = "rename_group"
    /\ Saved
    /\ \E i \in 1..Len(file.doc.projects.items) :
          file.doc.projects.items[i].group.s = resp.arg2

DefaultPresent(d) == d.groups.isList /\ Str(DEFAULT_GROUP) \in Range(d.groups.items)

\* C2: the document load_data returns, and the document a handler has just
\* saved, has "Ungrouped" among its groups, whatever rename_group and
\* delete_group were asked.
C2_DefaultGroupStays ==
    /\ DefaultPresent(load_data(file))
    /\ Saved => DefaultPresent(file.doc)

\* a group was deleted and only "Ungrouped" is left
C2_Witness ==
    /\ resp.op = "delete_group"
    /\ Saved
    /\ file.doc.groups.items = <<Str(DEFAULT_GROUP)>>

C3_StartStep ==
    resp'.op = "start_time_log" =>
        LET d == load_data(file)
            p == resp'.arg
        IN  /\ Running(d, p) => resp'.status = "already_running" /\ file' = file
            /\ ~HasProject(d, p) => resp'.status = "not_found" /\ file' = file
            /\ resp'.status = "success" => HasProject(d, p) /\ ~Running(d, p)
                                             /\ Running(file'.doc, p)

C3_SessionEnds ==
    \A n \in ProjectNames :
        Running(load_data(file), n) /\ ~Running(load_data(file'), n)
            => /\ resp'.arg = n
               /\ resp'.op \in {"end_time_log", "reset_project", "delete_project"}
               /\ resp'.status = "success"

\* C3: start on a project with an open session answers "already running"
\* and writes nothing, start on an unknown name answers "not found" and
\* writes nothing, a start succeeds only on a project without a session, and
\* a session is closed only by a successful stop, reset or delete of its
\* project: between two successful starts of a project lies one of those.
C3_NoSecondStart == [][C3_StartStep /\ C3_SessionEnds]_vars

C3_Witness ==
    /\ resp.op = "start_time_log"
    /\ resp.status = "already_running"
    /\ Running(load_data(file), resp.arg)

\* C4: stop on a project without a session, or on an unknown name, answers
\* "no active session" and leaves the file as it was.
C4_StopWithoutSession ==
    [][resp'.op = "end_time_log" /\ ~Running(load_data(file), resp'.arg)
          => resp'.status = "no_session" /\ file' = file]_vars

\* stop was refused for a project that exists and has logs already
C4_Witness ==
    /\ resp.op = "end_time_log"
    /\ resp.status = "no_session"
    /\ HasProject(load_data(file), resp.arg)
    /\ GetProject(load_data(file), resp.arg).time_logs.items # <<>>

C5_StopStep ==
    resp'.op = "end_time_log" /\ resp'.status = "success" =>
        LET d      == load_data(file)
            e      == file'.doc
            i      == ProjectIndex(d, resp'.arg)
            before == Projects(d)[i]
            after  == Projects(e)[i]
            n      == Len(before.time_logs.items)
        IN  /\ e.groups = d.groups
            /\ Len(Projects(e)) = Len(Projects(d))
            /\ \A j \in 1..Len(Projects(d)) : j # i => Projects(e)[j] = Projects(d)[j]
            /\ Len(after.time_logs.items) = n + 1
            /\ SubSeq(after.time_logs.items, 1, n) = before.time_logs.items
            /\ before.current_session.date # NoDate
                   => LastLog(after).date = before.current_session.date
            /\ ~after.current_session.present
            /\ after = [before EXCEPT !.time_logs = after.time_logs,
                                      !.current_session = after.current_session]

\* C5: a successful stop appends one TimeLog after the project's earlier
\* logs, dated as the session was at its start, removes current_session and
\* changes nothing else in the document.
C5_StopAppendsOneLog == [][C5_StopStep]_vars

\* a second log was appended on a day that is not the day of its session
C5_Witness ==
    /\ resp.op = "end_time_log"
    /\ Saved
    /\ LET p == GetProject(file.doc, resp.arg)
       IN  /\ Len(p.time_logs.items) = 2
           /\ LastLog(p).date # resp.clock.today
           /\ p.time_logs.items[1] # LastLog(p)
    /\ Len(file.doc.projects.items) = 2

C6_StopStep ==
    resp'.op = "end_time_log" /\ resp'.status = "success" =>
        LET start == GetProject(load_data(file), resp'.arg).current_session.start_time
            end   == resp'.clock.time
            log   == LastLog(GetProject(file'.doc, resp'.arg))
        IN  /\ log.duration >= 0
            /\ end < start => log.duration = 0
            /\ end >= start =>
                   /\ log.duration % 10 = 0
                   /\ 36 * (log.duration \div 10) - (end - start) \in -18..18
            /\ start = 36000 /\ end = 41400 => log.duration = 1500

\* C6: the duration stop records is a whole number of hundredths of an hour,
\* the nearest to end - start, and 0 when end is before start; it is never
\* negative, and from 10:00:00 to 11:30:00 it is 1.5.
C6_Duration == [][C6_StopStep]_vars

\* a log from 10:00:00 to 11:30:00 of 1.5 hours, then a log that ends before
\* it starts, of 0 hours
C6_Witness ==
    /\ resp.op = "end_time_log"
    /\ Saved
    /\ LET logs == GetProject(file.doc, resp.arg).time_logs.items
       IN  /\ Len(logs) = 2
           /\ logs[1].start_time = <<10, 0, 0>>
           /\ logs[1].end_time = <<11, 30, 0>>
           /\ logs[1].duration = 1500
           /\ logs[2].start_time = <<11, 30, 0>>
           /\ logs[2].end_time = <<10, 0, 54>>
           /\ logs[2].duration = 0

C7_AddStep ==
    resp'.op = "add_project" /\ HasProject(load_data(file), resp'.arg) =>
        /\ resp'.status = "exists"
        /\ file' = file
        /\ Cardinality({i \in 1..Len(Projects(load_data(file'))) :
                            Projects(load_data(file'))[i].name = resp'.arg}) = 1

\* C7: add_project with the name of a project that exists is refused and the
\* file stays as it was, the project, its fields and groups included; one
\* project of that name exists afterwards.
C7_NoOverwrite == [][C7_AddStep]_vars

\* refused although the request named a group that does not exist, for a
\* project that has tags
C7_Witness ==
    /\ resp.op = "add_project"
    /\ resp.status = "exists"
    /\ ~InGroups(load_data(file), resp.arg2)
    /\ GetProject(load_data(file), resp.arg).tags.items # <<>>

C8_DeleteStep ==
    resp'.op = "delete_group" =>
        LET d    == load_data(file)
            e    == file'.doc
            name == resp'.arg
        IN  /\ name # <<>> /\ name # DEFAULT_GROUP /\ InGroups(d, name) => resp'.status = "success"
            /\ resp'.status = "success" =>
                  /\ ~InGroups(e, name)
                  /\ \E k \in 1..Len(Groups(d)) :
                        /\ Groups(d)[k] = Str(name)
                        /\ Groups(e) = SubSeq(Groups(d), 1, k - 1)
                                         \o SubSeq(Groups(d), k + 1, Len(Groups(d)))
                  /\ Len(Projects(e)) = Len(Projects(d))
                  /\ \A i \in 1..Len(Projects(d)) :
                        Projects(e)[i] =
                            [Projects(d)[i] EXCEPT !.group =
                                IF @.s = name THEN GroupStr(DEFAULT_GROUP) ELSE @]

\* C8: delete_group of a group other than the default that exists succeeds:
\* the group leaves groups, the other groups keep their order, no project is
\* deleted, the projects of the group go to the default group and every
\* other project keeps its group.
C8_DeleteGroup == [][C8_DeleteStep]_vars

\* a group between two others was deleted; of two projects one is in the
\* default group and one in a third group
C8_Witness ==
    /\ resp.op = "delete_group"
    /\ Saved
    /\ Len(file.doc.groups.items) = 2
    /\ file.doc.groups.items[1] = Str(DEFAULT_GROUP)
    /\ Len(file.doc.projects.items) = 2
    /\ file.doc.projects.items[1].group.s = DEFAULT_GROUP
    /\ file.doc.projects.items[2].group.s = file.doc.groups.items[2].s

\* C9: rename_group with old = "Ungrouped" and delete_group of "Ungrouped"
\* are refused and leave the file as it was.
C9_DefaultProtected ==
    [][resp'.op \in {"rename_group", "delete_group"} /\ resp'.arg = DEFAULT_GROUP
          => resp'.status # "success" /\ file' = file]_vars

\* a rename of "Ungrouped" to a name that is free was refused
C9_Witness ==
    /\ resp.op = "rename_group"
    /\ resp.arg = DEFAULT_GROUP
    /\ resp.status = "default_group"
    /\ ~InGroups(load_data(file), resp.arg2)
    /\ Projects(load_data(file)) # <<>>

\* C10: loading what load_data returned gives the same document, its groups
\* in the same order.
C10_NormalizeIdempotent == load_data(FileOf(load_data(file))) = load_data(file)

\* a stored document with a value that is no object among its projects and
\* a project whose group load_data appends to groups
C10_Witness ==
    /\ file.kind = "dict"
    /\ file.doc.projects.isDict
    /\ \E i \in 1..Len(file.doc.projects.items) : ~file.doc.projects.items[i].isDict
    /\ Len(load_data(file).groups.items) > Len(file.doc.groups.items) + 1

\* C11: load_data never raises, whatever the file holds, and for a file that
\* is absent, is not JSON or holds a value that is no object it returns
\* {groups: ["Ungrouped"], projects: {}}.
C11_LoadNeverFails ==
    /\ resp.body.error # "UnicodeDecodeError"
    /\ file.kind \in {"absent", "unparsable", "notdict"} => load_data(file) = EmptyDoc

RECURSIVE SumHours(_)
SumHours(entries) ==
    IF entries = <<>> THEN 0 ELSE Head(entries).hours + SumHours(Tail(entries))

\* C12: the totals give every project its total rounded to 2 decimals, and
\* an overall total that is the sum of those rounded totals, not the rounding
\* of the sum of the totals before rounding.
C12_OverallSumsRounded ==
    resp.op = "get_all_time_totals" /\ resp.status = "ok" =>
        LET projects == Projects(load_data(file))
            totals   == resp.body.totals
        IN  /\ Len(totals.per_project) = Len(projects)
            /\ \A i \in 1..Len(projects) :
                  totals.per_project[i] =
                      [name |-> projects[i].name,
                       hours |-> round2_thousandths(
                                     compute_project_total_hours(projects[i]).value)]
            /\ totals.overall = round2_thousandths(SumHours(totals.per_project))

\* the sum of the durations that are numbers
RECURSIVE NumericSum(_)
NumericSum(logs) ==
    IF logs = <<>> THEN 0
    ELSE (IF Head(logs).isDict /\ Head(logs).durationKind = "number"
          THEN Head(logs).duration ELSE 0) + NumericSum(Tail(logs))

\* C13: the totals never fail on malformed entries of time_logs: whatever
\* the entries are, every project's total is the sum of the durations that
\* are numbers, an entry without one counting as zero.
C13_TotalsNeverFail ==
    resp.op = "get_all_time_totals" /\ ~load_raises(file) =>
        /\ resp.status = "ok"
        /\ LET projects == Projects(load_data(file))
               totals   == resp.body.totals
           IN  /\ Len(totals.per_project) = Len(projects)
               /\ \A i \in 1..Len(projects) :
                     totals.per_project[i].hours =
                         round2_thousandths(NumericSum(projects[i].time_logs.items))

\* the document without the projects that do not carry the tag
WithoutUntagged(data, tag) ==
    [data EXCEPT !.projects.items = Filter(@, {p \in Range(@) : tag \in Range(p.tags.items)})]

\* the log lies inside the date range of the query
InRange(log, query) ==
    /\ query.date_from = "" \/ date_rank(log.date) >= date_rank(query.date_from)
    /\ query.date_to = "" \/ date_rank(log.date) <= date_rank(query.date_to)

\* the hours of the projects that carry the tag of the query and pass its
\* group, project and date filters
RECURSIVE TaggedHours(_, _)
TaggedHours(projects, query) ==
    IF projects = <<>> THEN 0
    ELSE LET p == Head(projects)
         IN  (IF /\ query.tag \in Range(p.tags.items)
                 /\ query.project \in {<<>>, p.name}
                 /\ query.group \in {<<>>, project_group(p)}
              THEN NumericSum(Filter(p.time_logs.items,
                                     {l \in Range(p.time_logs.items) : InRange(l, query)}))
              ELSE 0) + TaggedHours(Tail(projects), query)

\* C14: with a tag filter the report has no section and no log line of a
\* project that does not carry the tag, and nothing of such a project in a
\* project, group or overall total: the report is the report of the document
\* without those projects, whatever the date range is.
C14_TagFilterExcludes ==
    resp.op = "report" /\ resp.query.tag # <<>> /\ ~load_raises(file) =>
        LET data     == load_data(file)
            query    == resp.query
            sections == resp.body.report.sections
            untagged == {p.name : p \in {p \in Range(Projects(data)) :
                                            query.tag \notin Range(p.tags.items)}}
            alone    == generate_markdown_report(WithoutUntagged(data, query.tag), query)
        IN  /\ \A i \in 1..Len(sections) : \A j \in 1..Len(sections[i].projects) :
                  sections[i].projects[j].name \notin untagged
            /\ resp.body.error = alone.error
            /\ resp.body.error = "" =>
                  /\ resp.body.report = Report(alone.sections, alone.overall)
                  /\ resp.body.report.overall =
                         round2_thousandths(TaggedHours(Projects(data), query))

\* a report filtered by tag and by date: a project without the tag has all
\* its logs inside the date range and is in the group of the first section
C14_Witness ==
    /\ resp.op = "report"
    /\ resp.status = "ok"
    /\ resp.query = Filters(<<>>, <<>>, <<"x">>, "", "1403-01-01")
    /\ resp.body.report.sections # <<>>
    /\ resp.body.report.overall > 0
    /\ \E p \in Range(Projects(load_data(file))) :
          /\ <<"x">> \notin Range(p.tags.items)
          /\ p.time_logs.items # <<>>
          /\ \A l \in Range(p.time_logs.items) : l.isDict /\ l.dateIsStr /\ InRange(l, resp.query)
          /\ project_group(p) = resp.body.report.sections[1].group

\* the projects that have logs
Logged(data) == {p \in Range(Projects(data)) : p.time_logs.items # <<>>}

\* C20: without filters the report agrees with the totals: its overall total
\* is the overall total, every group total it renders is the total of that
\* group, every project total it renders is the total of that project, and
\* it leaves out the projects without logs and the groups without a project
\* that has logs, and nothing else.
C20_ReportAgreesWithTotals ==
    resp.op = "report" /\ resp.query = NoFilters /\ ~load_raises(file) =>
        LET data     == load_data(file)
            totals   == compute_all_totals(Projects(data))
            groups   == compute_group_totals(data)
            sections == resp.body.report.sections
        IN  totals.error = "" /\ groups.error = "" =>
                /\ resp.status = "ok"
                /\ resp.body.report.overall = totals.overall
                /\ \A i \in 1..Len(sections) :
                      /\ [group |-> sections[i].group, hours |-> sections[i].total]
                             \in Range(groups.per_group)
                      /\ \A j \in 1..Len(sections[i].projects) :
                            [name |-> sections[i].projects[j].name,
                             hours |-> sections[i].projects[j].total]
                                \in Range(totals.per_project)
                /\ {sections[i].group : i \in 1..Len(sections)}
                       = {project_group(p) : p \in Logged(data)}
                /\ UNION {{sections[i].projects[j].name : j \in 1..Len(sections[i].projects)} :
                             i \in 1..Len(sections)}
                       = {p.name : p \in Logged(data)}

\* C15: when two requests that save have both called load_data before either
\* called save_data, the file after both is the document the later one made
\* of what it had loaded: the change of the earlier one is not in it.
C15_LastWriteWins ==
    \A a, b \in Workers :
        workers[a].wrote = 1 /\ workers[b].wrote = 2 /\ workers[b].seen = 0
            => file = FileOf(handle(workers[b], workers[b].data).data)

\* a stop and an add_project both returned success; the stop saved first,
\* and the file has the new project but not the log of the stop, whose
\* session is still open
C15_Witness ==
    \E a, b \in Workers :
        /\ workers[a].op = "end_time_log" /\ workers[a].status = "success"
        /\ workers[a].wrote = 1
        /\ workers[b].op = "add_project" /\ workers[b].status = "success"
        /\ workers[b].wrote = 2
        /\ HasProject(file.doc, Q)
        /\ GetProject(file.doc, P).time_logs.items = <<>>
        /\ GetProject(file.doc, P).current_session.present

\* C16: two starts of the same project both return success only when the
\* second called load_data before the first called save_data; the project
\* then has one current_session, that of the start that saved last.
C16_StartRace ==
    \A a, b \in Workers :
        /\ workers[a].op = "start_time_log" /\ workers[a].status = "success"
        /\ workers[b].op = "start_time_log" /\ workers[b].status = "success"
        /\ strip(workers[a].project) = strip(workers[b].project)
        /\ workers[a].wrote = 1 /\ workers[b].wrote = 2
        => /\ workers[b].seen = 0
           /\ ~Running(workers[a].data, strip(workers[a].project))
           /\ ~Running(workers[b].data, strip(workers[b].project))
           /\ GetProject(file.doc, strip(workers[b].project)).current_session
                  = Session(isoformat_seconds(workers[b].clock.time), workers[b].clock.today)

\* two starts of p at different times both returned success; the session of
\* the first is gone
C16_Witness ==
    \E a, b \in Workers :
        /\ workers[a].op = "start_time_log" /\ workers[a].status = "success"
        /\ workers[b].op = "start_time_log" /\ workers[b].status = "success"
        /\ workers[a].project = P /\ workers[b].project = P
        /\ workers[a].wrote = 1 /\ workers[b].wrote = 2
        /\ workers[a].clock.time # workers[b].clock.time
        /\ GetProject(file.doc, P).current_session.start_time
               = isoformat_seconds(workers[b].clock.time)

LogsOf(d, name) == GetProject(d, name).time_logs.items

\* the project exists in d and in e, with an open session in d and none in e
SessionClosed(d, e, name) ==
    /\ Running(d, name)
    /\ HasProject(e, name)
    /\ ~Running(e, name)

\* C17 as it was claimed: whenever a project that still exists goes from
\* Running to Idle the step is a successful stop of it that appended a
\* TimeLog; no other operation closes or discards an open session.
C17_EndsOnlyByStop ==
    [][file' # file =>
          LET d == load_data(file)
              e == load_data(file')
          IN  \A n \in ProjectNames :
                  SessionClosed(d, e, n) =>
                      /\ resp'.op = "end_time_log" /\ resp'.arg = n /\ resp'.status = "success"
                      /\ Len(LogsOf(e, n)) = Len(LogsOf(d, n)) + 1]_vars

C17_Step(d, e, n) ==
    /\ SessionClosed(d, e, n) =>
          /\ resp'.arg = n /\ resp'.status = "success"
          /\ \/ /\ resp'.op = "end_time_log"
                /\ Len(LogsOf(e, n)) = Len(LogsOf(d, n)) + 1
                /\ SubSeq(LogsOf(e, n), 1, Len(LogsOf(d, n))) = LogsOf(d, n)
             \/ /\ resp'.op = "reset_project"
                /\ LogsOf(e, n) = <<>>
    /\ Running(d, n) /\ Running(e, n) =>
          GetProject(e, n).current_session = GetProject(d, n).current_session

\* C17: whenever a project that still exists goes from Running to Idle the
\* step is a successful stop of it, which appended a TimeLog, or a successful
\* reset_project of it, which emptied its time_logs; every other step leaves
\* an open session as it is.
C17_EndsByStopOrReset ==
    [][file' # file =>
          LET d == load_data(file)
              e == load_data(file')
          IN  \A n \in ProjectNames : C17_Step(d, e, n)]_vars

\* a stop closed the session of a project in a group other than the
\* default, beside a second project, and its log is in the file
C17_Witness ==
    /\ resp.op = "end_time_log"
    /\ Saved
    /\ Len(Projects(file.doc)) = 2
    /\ ~Running(file.doc, resp.arg)
    /\ Len(LogsOf(file.doc, resp.arg)) = 1
    /\ GetProject(file.doc, resp.arg).group.s # DEFAULT_GROUP

NoDuplicates(seq) == \A i, j \in 1..Len(seq) : seq[i] = seq[j] => i = j

C18_Step ==
    resp'.op \in {"add_group", "rename_group", "delete_group", "add_project", "update_project"} =>
        LET d == load_data(file)
        IN  /\ resp'.status = "success" => NoDuplicates(file'.doc.groups.items)
            /\ resp'.op = "add_group" /\ InGroups(d, resp'.arg)
                   => resp'.status = "exists" /\ file' = file
            /\ resp'.op = "rename_group" /\ InGroups(d, resp'.arg2)
                   => resp'.status # "success" /\ file' = file
            /\ resp'.op \in {"add_project", "update_project"} /\ resp'.status = "success"
                   => /\ InGroups(file'.doc, resp'.arg2)
                      /\ InGroups(d, resp'.arg2) => file'.doc.groups = d.groups

\* C18: groups never holds a name twice after add_group, rename_group,
\* delete_group, add_project or update_project on a loaded document:
\* add_group of a name that is present is refused, add_project and
\* update_project add their group only when it is absent, and rename_group
\* to a name that is present is refused with the file unchanged.
C18_GroupsUnique == [][C18_Step]_vars

\* update_project named a group that was present, as the third of three,
\* and groups stayed as it was
C18_Witness ==
    /\ resp.op = "update_project"
    /\ Saved
    /\ Len(file.doc.groups.items) = 3
    /\ file.doc.groups.items[3] = Str(resp.arg2)
    /\ NoDuplicates(file.doc.groups.items)

C19_Step ==
    /\ resp'.op \in {"delete_time_log", "reset_project"} /\ resp'.status = "success" =>
          LET d == load_data(file)
              e == file'.doc
              i == ProjectIndex(d, resp'.arg)
          IN  /\ Len(Projects(e)) = Len(Projects(d))
              /\ Projects(e)[i].name = resp'.arg
              /\ Projects(e)[i].tags = Projects(d)[i].tags
              /\ Projects(e)[i].group = Projects(d)[i].group
              /\ \A j \in 1..Len(Projects(d)) : j # i => Projects(e)[j] = Projects(d)[j]
              /\ e.groups = d.groups
    /\ file' # file =>
          LET d == load_data(file)
              e == load_data(file')
          IN  \A n \in ProjectNames :
                  HasProject(d, n) /\ ~HasProject(e, n) =>
                      resp'.op = "delete_project" /\ resp'.arg = n /\ resp'.status = "success"

\* C19: after delete_time_log removed logs of a project, its last one
\* included, and after reset_project, the project is still in projects with
\* its tags and its group; a project leaves projects only by delete_project.
C19_EmptiedProjectStays == [][C19_Step]_vars

\* delete_time_log removed the only log of a project that is in a group
\* other than the default
C19_Witness ==
    /\ resp.op = "delete_time_log"
    /\ Saved
    /\ HasProject(file.doc, resp.arg)
    /\ LogsOf(file.doc, resp.arg) = <<>>
    /\ GetProject(file.doc, resp.arg).group.s # DEFAULT_GROUP
    /\ ~GetProject(file.doc, resp.arg).current_session.present

\* the entries of logs, in their order, whose date and start_time are not
\* both the given ones
Unmatched(logs, date, start_time) ==
    LET kept == {i \in 1..Len(logs) :
                    logs[i].date # date \/ logs[i].start_time # start_time}
    IN  [k \in 1..Cardinality(kept) |->
            logs[CHOOSE i \in kept : Cardinality({j \in kept : j < i}) = k - 1]]

\* the step is delete_time_log of the project n with the arguments date and
\* start_time: the matching logs of n are gone and the others are left, or n
\* has no matching log and the file is not written
C21_Delete(d, n, date, start_time) ==
    delete_time_log(n, date, start_time) =>
        IF HasProject(d, n) /\ Unmatched(LogsOf(d, n), date, start_time) # LogsOf(d, n)
        THEN /\ resp'.status = "success"
             /\ file'.kind = "dict"
             /\ LogsOf(file'.doc, n) = Unmatched(LogsOf(d, n), date, start_time)
        ELSE /\ resp'.status # "success"
             /\ file' = file

\* what a step that writes the file does to the time_logs of the project n
\* of the document d it loaded, e being the document after it
C21_Frame(d, e, n) ==
    /\ ~HasProject(e, n) =>
          resp'.op = "delete_project" /\ resp'.arg = n /\ resp'.status = "success"
    /\ resp'.op \in {"add_group", "rename_group", "delete_group", "add_project",
                     "update_project", "start_time_log"} =>
          HasProject(e, n) /\ LogsOf(e, n) = LogsOf(d, n)
    /\ HasProject(e, n) /\ LogsOf(e, n) # LogsOf(d, n) =>
          /\ resp'.arg = n /\ resp'.status = "success"
          /\ \/ /\ resp'.op = "end_time_log"
                /\ Len(LogsOf(e, n)) = Len(LogsOf(d, n)) + 1
                /\ SubSeq(LogsOf(e, n), 1, Len(LogsOf(d, n))) = LogsOf(d, n)
             \/ /\ resp'.op = "delete_time_log"
                /\ \E date \in Today, start_time \in StartInputs :
                       LogsOf(e, n) = Unmatched(LogsOf(d, n), date, start_time)
             \/ /\ resp'.op = "reset_project"
                /\ LogsOf(e, n) = <<>>

C21_Step ==
    /\ resp'.op = "delete_time_log" =>
          LET d == load_data(file)
          IN  \A n \in ProjectInputs, date \in Today, start_time \in StartInputs :
                  C21_Delete(d, n, date, start_time)
    /\ file' # file =>
          LET d == load_data(file)
              e == load_data(file')
          IN  \A n \in ProjectInputs : HasProject(d, n) => C21_Frame(d, e, n)

\* C21: the time_logs of a project change only by a stop of it, which
\* appends one entry behind the others, by delete_time_log of it, which
\* removes exactly the entries whose date and start_time are both the
\* arguments and does not write the file when none is, by reset_project of
\* it, which empties them, and by delete_project; add_group, rename_group,
\* delete_group, add_project, update_project and start leave the time_logs
\* of every project as they are, and the entries that stay are unaltered.
C21_LogsChangeOnlyByLogOps == [][C21_Step]_vars

\* delete_time_log removed the first log of p and kept the second, which
\* starts at the same time on the next day; the log of q, of the same date
\* as the one removed, is still there
C21_Witness ==
    /\ resp.op = "delete_time_log"
    /\ resp.arg = P
    /\ Saved
    /\ LogsOf(file.doc, P) = <<LogB>>
    /\ HasProject(file.doc, Q)
    /\ LogsOf(file.doc, Q) = <<LogA>>

====
